---- MODULE Spec2Model ----
(***************************************************************************)
(* Model of the two CRUD services of the repository:                       *)
(*   - store_api.py  : product catalogue over a document collection        *)
(*   - workoutapi.py : athletes over relational tables                     *)
(* Each route handler is one action; the repository / use-case methods are *)
(* operators the actions call.                                             *)
(*                                                                         *)
(* Representation.  A Python str is a sequence of one-character strings.   *)
(* An Optional value is a sequence of length 0 (None) or 1 (a value), so   *)
(* that None, "" and 0 stay distinct.  A datetime is a number of           *)
(* microseconds.  A dict is a function over the keys it holds.             *)
(***************************************************************************)
EXTENDS Integers, Sequences, FiniteSets, TLC

VARIABLES
    products,       \* store_api: the documents of the products collection, in insertion order
    nextOid,        \* store_api: the next ObjectId the store assigns
    now,            \* store_api: the server clock, datetime.utcnow(), in microseconds
    atletas,        \* workoutapi: rows of table atletas, in rowid order
    centros,        \* workoutapi: ids of table centros_treinamento
    categorias,     \* workoutapi: ids of table categorias
    nextAtletaId,   \* workoutapi: next autoincrement primary key of atletas
    fkEnforced,     \* workoutapi: whether the configured engine enforces foreign keys
    tasks,          \* store_api: the request-handling tasks suspended at a storage call
    sessions,       \* workoutapi: the requests in flight, each with its database session
    req,            \* the last request served
    resp            \* the response to it

vars == <<products, nextOid, now, atletas, centros, categorias, nextAtletaId,
          fkEnforced, tasks, sessions, req, resp>>

storeVars == <<products, nextOid, now>>
workoutVars == <<atletas, centros, categorias, nextAtletaId, fkEnforced>>
concVars == <<tasks, sessions>>

-----------------------------------------------------------------------------
(* Bounds of the model *)

MaxProducts == 2
MaxTicks == 2
MaxAtletas == 2
MaxCentros == 1
MaxCategorias == 1
MaxTasks == 2
MaxSessions == 2

-----------------------------------------------------------------------------
(* Optional values and strings *)

None == <<>>
Some(v) == <<v>>

Rep(n) == [i \in 1..n |-> "x"]

Min(a, b) == IF a < b THEN a ELSE b

\* The clock moves in half-millisecond ticks, up to MaxTicks of them
MaxNow == 500 * MaxTicks

-----------------------------------------------------------------------------
(* store_api.py : schemas *)

NameMaxLength == 100
DescriptionMaxLength == 500
CategoryMaxLength == 50

\* The declared fields of ProductUpdate; a request body's other keys are ignored.
ProductUpdateFields == {"name", "description", "price", "category", "updated_at"}

\* Field(..., min_length, max_length, gt) of ProductBase and ProductUpdate
FieldConstraint(f, v) ==
    CASE f = "name" -> Len(v) >= 1 /\ Len(v) <= NameMaxLength
      [] f = "description" -> Len(v) <= DescriptionMaxLength
      [] f = "price" -> v > 0
      [] f = "category" -> Len(v) >= 1 /\ Len(v) <= CategoryMaxLength
      [] OTHER -> TRUE

\* ProductCreate(**body): name, price, category required; description Optional
ProductCreateValid(b) ==
    /\ b.name # None /\ FieldConstraint("name", b.name[1])
    /\ b.description = None \/ FieldConstraint("description", b.description[1])
    /\ b.price # None /\ FieldConstraint("price", b.price[1])
    /\ b.category # None /\ FieldConstraint("category", b.category[1])

\* ProductUpdate(**body): undeclared keys are dropped, declared ones are "set"
ParseProductUpdate(body) ==
    [f \in (DOMAIN body) \cap ProductUpdateFields |-> body[f]]

\* Every field of ProductUpdate is Optional: None passes, a value must meet its constraint
ProductUpdateValid(p) ==
    \A f \in DOMAIN p : p[f] = None \/ FieldConstraint(f, p[f][1])

\* ProductInDB(**product_data): ProductBase plus id, created_at, updated_at, all required
ProductInDBValid(d) ==
    /\ d.name # None /\ FieldConstraint("name", d.name[1])
    /\ d.description = None \/ FieldConstraint("description", d.description[1])
    /\ d.price # None /\ FieldConstraint("price", d.price[1])
    /\ d.category # None /\ FieldConstraint("category", d.category[1])
    /\ d.created_at # None
    /\ d.updated_at # None

-----------------------------------------------------------------------------
(* store_api.py : ObjectId and the document store *)

HexChars == <<"0", "1", "2", "3", "4", "5", "6", "7", "8", "9",
              "a", "b", "c", "d", "e", "f">>

ObjectIdLength == 24

HexValue(c) == CHOOSE k \in 0..15 : HexChars[k + 1] = c

\* A 24-character hexadecimal string
IsHexString(s) ==
    /\ Len(s) = ObjectIdLength
    /\ \A i \in 1..Len(s) : \E k \in 1..16 : HexChars[k] = s[i]

\* str(oid): 24 hexadecimal digits, most significant first
RECURSIVE HexDigits(_, _)
HexDigits(n, width) ==
    IF width = 0 THEN <<>>
    ELSE Append(HexDigits(n \div 16, width - 1), HexChars[(n % 16) + 1])

\* The renderings of the ObjectIds the model can assign, computed once
ObjectIdStrings == [n \in 0..15 |-> HexDigits(n, ObjectIdLength)]

ObjectIdStr(oid) == ObjectIdStrings[oid]

\* ObjectId(s), for a valid s: the number its digits spell
RECURSIVE HexNumber(_, _)
HexNumber(s, i) ==
    IF i = 0 THEN 0 ELSE 16 * HexNumber(s, i - 1) + HexValue(s[i])

\* The id strings requests carry: the test's malformed id and the renderings above
MalformedId == <<"n", "o", "n", "e", "x", "i", "s", "t", "e", "n", "t", "i", "d">>

IdStrings == {MalformedId} \cup {ObjectIdStrings[n] : n \in 0..15}

\* IsHexString and HexNumber over the id strings, computed once
IsValidTable == [s \in IdStrings |-> IsHexString(s)]
ObjectIdTable == [s \in {k \in IdStrings : IsValidTable[k]} |-> HexNumber(s, Len(s))]

\* ObjectId.is_valid(product_id)
ObjectId_is_valid(s) == IsValidTable[s]

\* ObjectId(product_id)
ObjectIdOf(s) == ObjectIdTable[s]

MicrosPerMilli == 1000

\* A BSON datetime holds milliseconds: the driver drops the microseconds on write
TruncMs(t) == (t \div MicrosPerMilli) * MicrosPerMilli

BsonEncode(f, v) ==
    IF f \in {"created_at", "updated_at"} /\ v # None THEN Some(TruncMs(v[1])) ELSE v

Indexes(coll, oid) == {i \in 1..Len(coll) : coll[i]._id = oid}

\* collection.insert_one(product_data): the stored document, with its _id
insert_one(coll, data, oid) ==
    Append(coll, [f \in (DOMAIN data) \cup {"_id"} |->
                    IF f = "_id" THEN oid ELSE BsonEncode(f, data[f])])

\* collection.find_one({"_id": oid}): Some(document) or None
find_one(coll, oid) ==
    IF Indexes(coll, oid) = {} THEN None
    ELSE Some(coll[CHOOSE i \in Indexes(coll, oid) : TRUE])

\* {"$set": update_data} applied to one document
SetFields(doc, update_data) ==
    [f \in DOMAIN doc \cup DOMAIN update_data |->
        IF f \in DOMAIN update_data THEN BsonEncode(f, update_data[f]) ELSE doc[f]]

\* An update that applies the $set to every document, whatever the filter
update_one_unfiltered(coll, oid, update_data) ==
    [coll |-> [i \in 1..Len(coll) |-> SetFields(coll[i], update_data)],
     matched_count |-> Cardinality(Indexes(coll, oid))]

\* collection.update_one({"_id": oid}, {"$set": update_data})
update_one(coll, oid, update_data) ==
    [coll |-> [i \in 1..Len(coll) |->
                 IF coll[i]._id = oid THEN SetFields(coll[i], update_data) ELSE coll[i]],
     matched_count |-> Cardinality(Indexes(coll, oid))]

\* A delete whose filter names a key no document has: it matches nothing
delete_one_wrong_key(coll, oid) == [coll |-> coll, deleted_count |-> 0]

\* collection.delete_one({"_id": oid})
delete_one(coll, oid) ==
    [coll |-> SelectSeq(coll, LAMBDA d : d._id # oid),
     deleted_count |-> Cardinality(Indexes(coll, oid))]

\* A document matches a query {field: {"$gt": a, "$lt": b}}; null matches no comparison
Matches(doc, query) ==
    \A f \in DOMAIN query : \A o \in DOMAIN query[f] :
        /\ doc[f] # None
        /\ o = "$gt" => doc[f][1] > query[f][o]
        /\ o = "$lt" => doc[f][1] < query[f][o]

\* collection.find(query).skip(skip).limit(limit).to_list(length=limit)
find(coll, query, skip, limit) ==
    LET hits == SelectSeq(coll, LAMBDA d : Matches(d, query))
    IN  SubSeq(hits, skip + 1, Min(Len(hits), skip + limit))

-----------------------------------------------------------------------------
(* store_api.py : ProductRepository *)

ProductFields == {"id", "name", "description", "price", "category",
                  "created_at", "updated_at"}

Returned(v, coll) == [exc |-> "", msg |-> <<>>, value |-> v, coll |-> coll]
Raised(e, m, coll) == [exc |-> e, msg |-> m, value |-> <<>>, coll |-> coll]

InvalidIdMessage == <<"Invalid product ID">>
NotFoundMessage(product_id) == <<"Product with id ", product_id, " not found">>

\* _convert_to_product_in_db: product_data["id"] = str(product_data["_id"]);
\* ProductInDB(**product_data) validates and keeps the declared fields.
convert_to_product_in_db(product_data) ==
    [ok |-> ProductInDBValid(product_data),
     value |-> [f \in ProductFields |->
                  IF f = "id" THEN ObjectIdStr(product_data._id) ELSE product_data[f]]]

\* product.model_dump() plus the two timestamps, read at two calls of utcnow()
NewProductData(product, t1, t2) ==
    [f \in {"name", "description", "price", "category", "created_at", "updated_at"} |->
        CASE f = "created_at" -> Some(t1)
          [] f = "updated_at" -> Some(t2)
          [] OTHER -> product[f]]

\* A create that answers with the data it sent instead of reading the document back
create_no_read_back(coll, product, oid, t1, t2) ==
    LET product_data == NewProductData(product, t1, t2)
        stored == insert_one(coll, product_data, oid)
        conv == convert_to_product_in_db(
                    [f \in DOMAIN product_data \cup {"_id"} |->
                        IF f = "_id" THEN oid ELSE product_data[f]])
    IN  IF conv.ok THEN Returned(Some(conv.value), stored)
        ELSE Raised("ProductCreationException", <<"Error creating product: ">>, stored)

\* ProductRepository.create
create(coll, product, oid, t1, t2) ==
    LET product_data == NewProductData(product, t1, t2)
        stored == insert_one(coll, product_data, oid)
        created_product == find_one(stored, oid)
        conv == convert_to_product_in_db(created_product[1])
    IN  IF conv.ok THEN Returned(Some(conv.value), stored)
        ELSE Raised("ProductCreationException", <<"Error creating product: ">>, stored)

\* ProductRepository.get_by_id
get_by_id(coll, product_id) ==
    IF ~ObjectId_is_valid(product_id)
    THEN Raised("ProductNotFoundException", InvalidIdMessage, coll)
    ELSE LET product == find_one(coll, ObjectIdOf(product_id))
         IN  IF product = None
             THEN Raised("ProductNotFoundException", NotFoundMessage(product_id), coll)
             ELSE LET conv == convert_to_product_in_db(product[1])
                  IN  IF conv.ok THEN Returned(Some(conv.value), coll)
                      ELSE Raised("ValidationError", <<"ProductInDB">>, coll)

\* ProductRepository.get_all
get_all(coll, skip, limit, filters) ==
    LET found == find(coll, filters, skip, limit)
        conv == [i \in 1..Len(found) |-> convert_to_product_in_db(found[i])]
    IN  IF \A i \in 1..Len(found) : conv[i].ok
        THEN Returned([i \in 1..Len(found) |-> conv[i].value], coll)
        ELSE Raised("ValidationError", <<"ProductInDB">>, coll)

\* An update_data that stamps the current time over whatever the caller set
UpdateData_always_now(product, t) ==
    [f \in DOMAIN product \cup {"updated_at"} |->
        IF f = "updated_at" THEN Some(t) ELSE product[f]]

\* update_data of ProductRepository.update: model_dump(exclude_unset=True), and the
\* current time as updated_at when the caller set none
UpdateData(product, t) ==
    IF "updated_at" \in DOMAIN product THEN product
    ELSE [f \in DOMAIN product \cup {"updated_at"} |->
            IF f = "updated_at" THEN Some(t) ELSE product[f]]

\* ProductRepository.update
update(coll, product_id, product, t) ==
    IF ~ObjectId_is_valid(product_id)
    THEN Raised("ProductNotFoundException", InvalidIdMessage, coll)
    ELSE LET oid == ObjectIdOf(product_id)
             result == update_one(coll, oid, UpdateData(product, t))
         IN  IF result.matched_count = 0
             THEN Raised("ProductNotFoundException", NotFoundMessage(product_id),
                         result.coll)
             ELSE LET conv == convert_to_product_in_db(find_one(result.coll, oid)[1])
                  IN  IF conv.ok THEN Returned(Some(conv.value), result.coll)
                      ELSE Raised("ValidationError", <<"ProductInDB">>, result.coll)

\* ProductRepository.delete
delete(coll, product_id) ==
    IF ~ObjectId_is_valid(product_id)
    THEN Raised("ProductNotFoundException", InvalidIdMessage, coll)
    ELSE LET result == delete_one(coll, ObjectIdOf(product_id))
         IN  Returned(Some(result.deleted_count > 0), result.coll)

-----------------------------------------------------------------------------
(* store_api.py : ProductUseCases *)

\* The filters dict that ProductUseCases.list_products builds
PriceFilters(min_price, max_price) ==
    IF min_price # None /\ max_price # None
    THEN "price" :> ("$gt" :> min_price[1] @@ "$lt" :> max_price[1])
    ELSE IF min_price # None
    THEN "price" :> ("$gt" :> min_price[1])
    ELSE IF max_price # None
    THEN "price" :> ("$lt" :> max_price[1])
    ELSE <<>>

\* ProductUseCases.list_products
usecases_list_products(coll, skip, limit, min_price, max_price) ==
    get_all(coll, skip, limit, PriceFilters(min_price, max_price))

-----------------------------------------------------------------------------
(* store_api.py : requests the model sends *)

\* Bodies of POST /products/
CreateBodies ==
    { [name |-> Some(<<"a">>), description |-> Some(<<"d">>), price |-> Some(100),
       category |-> Some(<<"c">>)],
      [name |-> Some(<<"b">>), description |-> None, price |-> Some(6000),
       category |-> Some(<<"c">>)],
      [name |-> Some(<<>>), description |-> None, price |-> Some(100),
       category |-> Some(<<"c">>)],
      [name |-> Some(Rep(NameMaxLength + 1)), description |-> None, price |-> Some(100),
       category |-> Some(<<"c">>)],
      [name |-> Some(<<"a">>), description |-> None, price |-> Some(0),
       category |-> Some(<<"c">>)] }

\* Bodies of PATCH /products/{id}: the keys present are the fields the caller set
UpdateBodies ==
    { "name" :> Some(<<"b">>),
      "name" :> None,
      "price" :> Some(0),
      "updated_at" :> Some(2250),
      "updated_at" :> None,
      "created_at" :> Some(750) }

\* Path parameters: a malformed id and the ids the store can have assigned
ProductIds == {MalformedId} \cup {ObjectIdStr(n) : n \in 1..MaxProducts}

\* PATCH requests: every body on a well-formed id, one body on the malformed id
UpdateRequests ==
    {<<product_id, body>> \in ProductIds \X UpdateBodies :
        product_id = MalformedId => body = ("name" :> Some(<<"b">>))}

\* Query parameters of GET /products/
ListQueries ==
    { [skip |-> 0, limit |-> 10, min_price |-> None, max_price |-> None],
      [skip |-> 0, limit |-> 10, min_price |-> Some(5000), max_price |-> Some(8000)],
      [skip |-> 0, limit |-> 10, min_price |-> Some(6000), max_price |-> None],
      [skip |-> 0, limit |-> 10, min_price |-> None, max_price |-> Some(6000)],
      [skip |-> 1, limit |-> 1, min_price |-> None, max_price |-> None],
      [skip |-> 0, limit |-> 10, min_price |-> Some(0), max_price |-> None] }

\* Query(0, ge=0), Query(10, ge=1, le=100), Query(None, gt=0), Query(None, gt=0)
ListQueryValid(q) ==
    /\ q.skip >= 0
    /\ q.limit >= 1 /\ q.limit <= 100
    /\ q.min_price = None \/ q.min_price[1] > 0
    /\ q.max_price = None \/ q.max_price[1] > 0

-----------------------------------------------------------------------------
(* store_api.py : route handlers *)

Response(status, detail, body) == [status |-> status, detail |-> detail, body |-> body]

\* The framework's answer to a request that fails schema validation
Unprocessable == Response(422, <<"validation error">>, <<>>)

\* The framework's answer to an exception no handler catches
ServerError == Response(500, <<"Internal Server Error">>, <<>>)

\* create_product: ProductCreationException becomes 400
create_product_handler(coll, product, oid, t1, t2) ==
    LET r == create(coll, product, oid, t1, t2)
    IN  [response |-> IF r.exc = "ProductCreationException"
                      THEN Response(400, r.msg, <<>>)
                      ELSE Response(201, <<>>, r.value),
         coll |-> r.coll]

\* get_product: ProductNotFoundException becomes 404, anything else is not caught
get_product_handler(coll, product_id) ==
    LET r == get_by_id(coll, product_id)
    IN  [response |-> CASE r.exc = "" -> Response(200, <<>>, r.value)
                        [] r.exc = "ProductNotFoundException" -> Response(404, r.msg, <<>>)
                        [] OTHER -> ServerError,
         coll |-> r.coll]

\* list_products: no exception is caught
list_products_handler(coll, q) ==
    LET r == usecases_list_products(coll, q.skip, q.limit, q.min_price, q.max_price)
    IN  [response |-> IF r.exc = "" THEN Response(200, <<>>, r.value) ELSE ServerError,
         coll |-> r.coll]

\* update_product: ProductNotFoundException becomes 404, anything else is not caught
update_product_handler(coll, product_id, product, t) ==
    LET r == update(coll, product_id, product, t)
    IN  [response |-> CASE r.exc = "" -> Response(200, <<>>, r.value)
                        [] r.exc = "ProductNotFoundException" -> Response(404, r.msg, <<>>)
                        [] OTHER -> ServerError,
         coll |-> r.coll]

\* A delete_product that answers 204 whatever the repository returned
delete_product_handler_unchecked(coll, product_id) ==
    LET r == delete(coll, product_id)
    IN  [response |-> IF r.exc = "ProductNotFoundException"
                      THEN Response(404, r.msg, <<>>)
                      ELSE Response(204, <<>>, <<>>),
         coll |-> r.coll]

\* delete_product: 404 when the repository raised or returned False, else 204
delete_product_handler(coll, product_id) ==
    LET r == delete(coll, product_id)
    IN  [response |-> CASE r.exc = "ProductNotFoundException" -> Response(404, r.msg, <<>>)
                        [] r.value = Some(FALSE) ->
                               Response(404, NotFoundMessage(product_id), <<>>)
                        [] OTHER -> Response(204, <<>>, <<>>),
         coll |-> r.coll]

\* POST /products/
CreateProductRequest(product, t2) ==
    /\ req' = [op |-> "create_product", id |-> <<>>, body |-> product]
    /\ IF ~ProductCreateValid(product)
       THEN resp' = Unprocessable /\ UNCHANGED storeVars
       ELSE /\ nextOid <= MaxProducts
            /\ LET h == create_product_handler(products, product, nextOid, now, t2)
               IN  /\ products' = h.coll
                   /\ resp' = h.response
            /\ nextOid' = nextOid + 1
            /\ now' = t2
    /\ UNCHANGED <<workoutVars, concVars>>

create_product ==
    \E product \in CreateBodies, t2 \in {now, Min(now + 500, MaxNow)} :
        CreateProductRequest(product, t2)

\* GET /products/{product_id}
GetProductRequest(product_id) ==
    /\ req' = [op |-> "get_product", id |-> product_id, body |-> <<>>]
    /\ resp' = get_product_handler(products, product_id).response
    /\ UNCHANGED <<storeVars, workoutVars, concVars>>

get_product == \E product_id \in ProductIds : GetProductRequest(product_id)

\* GET /products/
ListProductsRequest(q) ==
    /\ req' = [op |-> "list_products", id |-> <<>>, body |-> q]
    /\ resp' = IF ~ListQueryValid(q) THEN Unprocessable
               ELSE list_products_handler(products, q).response
    /\ UNCHANGED <<storeVars, workoutVars, concVars>>

list_products == \E q \in ListQueries : ListProductsRequest(q)

\* PATCH /products/{product_id}
UpdateProductRequest(product_id, body) ==
    /\ req' = [op |-> "update_product", id |-> product_id, body |-> body]
    /\ IF ~ProductUpdateValid(ParseProductUpdate(body))
       THEN resp' = Unprocessable /\ UNCHANGED products
       ELSE LET h == update_product_handler(products, product_id,
                                            ParseProductUpdate(body), now)
            IN  /\ products' = h.coll
                /\ resp' = h.response
    /\ UNCHANGED <<nextOid, now, workoutVars, concVars>>

update_product ==
    \E <<product_id, body>> \in UpdateRequests : UpdateProductRequest(product_id, body)

\* DELETE /products/{product_id}
DeleteProductRequest(product_id) ==
    /\ req' = [op |-> "delete_product", id |-> product_id, body |-> <<>>]
    /\ LET h == delete_product_handler(products, product_id)
       IN  /\ products' = h.coll
           /\ resp' = h.response
    /\ UNCHANGED <<nextOid, now, workoutVars, concVars>>

delete_product == \E product_id \in ProductIds : DeleteProductRequest(product_id)

\* The server clock advances between requests
Tick ==
    /\ now + 500 <= MaxNow
    /\ now' = now + 500
    /\ UNCHANGED <<products, nextOid, workoutVars, concVars, req, resp>>

NoRequest == [op |-> "none", id |-> <<>>, body |-> <<>>]
NoResponse == Response(0, <<>>, <<>>)

\* The request-handling tasks; an idle one is waiting for a request
Tasks == 1..MaxTasks
IdleTask == [pc |-> "idle", id |-> <<>>, body |-> <<>>, oid |-> 0]

\* The requests the athletes service can have in flight; a free one holds no session
Sessions == 1..MaxSessions
FreeSession == [pc |-> "free", op |-> "none", id |-> 0, body |-> <<>>, atleta |-> None,
                rivals |-> {}]

Init ==
    /\ products = <<>>
    /\ nextOid = 1
    /\ now = 0
    /\ atletas = <<>>
    /\ centros = {}
    /\ categorias = {}
    /\ nextAtletaId = 1
    /\ fkEnforced = FALSE
    /\ tasks = [t \in Tasks |-> IdleTask]
    /\ sessions = [s \in Sessions |-> FreeSession]
    /\ req = NoRequest
    /\ resp = NoResponse

Next ==
    \/ create_product
    \/ get_product
    \/ list_products
    \/ update_product
    \/ delete_product
    \/ Tick

Spec == Init /\ [][Next]_vars

-----------------------------------------------------------------------------
(* store_api.py : concurrent requests.  Every repository method is a       *)
(* coroutine that suspends at each `await` of a storage call; between two  *)
(* storage calls of one request any other request may run.  A step of a    *)
(* task is the code up to and including one storage call; the code after   *)
(* the last storage call touches nothing shared and ends the step.         *)

\* The method has not ended: it is suspended, the storage call done on coll
Awaiting(coll) == [exc |-> "await", msg |-> <<>>, value |-> <<>>, coll |-> coll]

\* ProductRepository.create up to `await self.collection.insert_one(product_data)`
create_insert(coll, product, oid, t1, t2) ==
    Awaiting(insert_one(coll, NewProductData(product, t1, t2), oid))

\* ProductRepository.create from `await self.collection.find_one(...)`: whatever
\* fails is caught by `except Exception` and raised as ProductCreationException
create_read_back(coll, oid) ==
    LET created_product == find_one(coll, oid)
    IN  IF created_product = None
        THEN Raised("ProductCreationException", <<"Error creating product: ">>, coll)
        ELSE LET conv == convert_to_product_in_db(created_product[1])
             IN  IF conv.ok THEN Returned(Some(conv.value), coll)
                 ELSE Raised("ProductCreationException", <<"Error creating product: ">>,
                             coll)

\* ProductRepository.update up to the check of matched_count, after
\* `await self.collection.update_one(...)`
update_write(coll, product_id, product, t) ==
    IF ~ObjectId_is_valid(product_id)
    THEN Raised("ProductNotFoundException", InvalidIdMessage, coll)
    ELSE LET result == update_one(coll, ObjectIdOf(product_id), UpdateData(product, t))
         IN  IF result.matched_count = 0
             THEN Raised("ProductNotFoundException", NotFoundMessage(product_id),
                         result.coll)
             ELSE Awaiting(result.coll)

\* ProductRepository.update from `await self.collection.find_one(...)`: the result,
\* None when no document has the id any more, goes to _convert_to_product_in_db, whose
\* first statement product_data["id"] = ... raises TypeError on None
update_read_back(coll, product_id) ==
    LET updated_product == find_one(coll, ObjectIdOf(product_id))
    IN  IF updated_product = None
        THEN Raised("TypeError",
                    <<"'NoneType' object does not support item assignment">>, coll)
        ELSE LET conv == convert_to_product_in_db(updated_product[1])
             IN  IF conv.ok THEN Returned(Some(conv.value), coll)
                 ELSE Raised("ValidationError", <<"ProductInDB">>, coll)

\* The except clauses of the create_product route
create_product_answer(r) ==
    IF r.exc = "ProductCreationException" THEN Response(400, r.msg, <<>>)
    ELSE Response(201, <<>>, r.value)

\* The except clauses of the update_product route
update_product_answer(r) ==
    CASE r.exc = "" -> Response(200, <<>>, r.value)
      [] r.exc = "ProductNotFoundException" -> Response(404, r.msg, <<>>)
      [] OTHER -> ServerError

\* Bodies of the concurrent POST requests: the valid ones
ConcCreateBodies == {product \in CreateBodies : ProductCreateValid(product)}

\* Bodies of the concurrent PATCH requests: valid, and setting no field to null
ConcUpdateBodies == { "name" :> Some(<<"b">>), "updated_at" :> Some(2250) }

\* Ids of the concurrent PATCH requests: the well-formed ones
ConcProductIds == {ObjectIdStr(n) : n \in 1..MaxProducts}

\* POST /products/ runs up to its insert_one
StartCreate(t, product, t2) ==
    /\ tasks[t].pc = "idle"
    /\ nextOid <= MaxProducts
    /\ products' = create_insert(products, product, nextOid, now, t2).coll
    /\ nextOid' = nextOid + 1
    /\ now' = t2
    /\ tasks' = [tasks EXCEPT ![t] = [pc |-> "create_find_one", id |-> <<>>,
                                      body |-> product, oid |-> nextOid]]
    /\ UNCHANGED <<workoutVars, sessions, req, resp>>

start_create ==
    \E t \in Tasks, product \in ConcCreateBodies, t2 \in {now, Min(now + 500, MaxNow)} :
        StartCreate(t, product, t2)

\* POST /products/ resumes: find_one, conversion, answer
FinishCreate(t) ==
    /\ tasks[t].pc = "create_find_one"
    /\ req' = [op |-> "create_product", id |-> <<>>, body |-> tasks[t].body]
    /\ resp' = create_product_answer(create_read_back(products, tasks[t].oid))
    /\ tasks' = [tasks EXCEPT ![t] = IdleTask]
    /\ UNCHANGED <<storeVars, workoutVars, sessions>>

finish_create == \E t \in Tasks : FinishCreate(t)

\* PATCH /products/{product_id} runs up to its update_one; it ends there when no
\* document matched
StartUpdate(t, product_id, body) ==
    /\ tasks[t].pc = "idle"
    /\ LET r == update_write(products, product_id, ParseProductUpdate(body), now)
       IN  /\ products' = r.coll
           /\ IF r.exc = "await"
              THEN /\ tasks' = [tasks EXCEPT ![t] = [pc |-> "update_find_one",
                                   id |-> product_id, body |-> body, oid |-> 0]]
                   /\ UNCHANGED <<req, resp>>
              ELSE /\ req' = [op |-> "update_product", id |-> product_id, body |-> body]
                   /\ resp' = update_product_answer(r)
                   /\ UNCHANGED tasks
    /\ UNCHANGED <<nextOid, now, workoutVars, sessions>>

start_update ==
    \E t \in Tasks, product_id \in ConcProductIds, body \in ConcUpdateBodies :
        StartUpdate(t, product_id, body)

\* PATCH /products/{product_id} resumes: find_one, conversion, answer
FinishUpdate(t) ==
    /\ tasks[t].pc = "update_find_one"
    /\ req' = [op |-> "update_product", id |-> tasks[t].id, body |-> tasks[t].body]
    /\ resp' = update_product_answer(update_read_back(products, tasks[t].id))
    /\ tasks' = [tasks EXCEPT ![t] = IdleTask]
    /\ UNCHANGED <<storeVars, workoutVars, sessions>>

finish_update == \E t \in Tasks : FinishUpdate(t)

\* get_by_id, get_all and delete make one storage call each: their requests are the
\* single steps get_product, list_products and delete_product
ConcNext ==
    \/ start_create
    \/ finish_create
    \/ start_update
    \/ finish_update
    \/ get_product
    \/ list_products
    \/ delete_product
    \/ Tick

ConcSpec == Init /\ [][ConcNext]_vars

-----------------------------------------------------------------------------
(* workoutapi.py : tables and schemas *)

\* Columns of table atletas besides the primary key
AtletaColumns == {"nome", "cpf", "idade", "peso", "altura", "sexo",
                  "centro_treinamento_id", "categoria_id"}

\* Columns declared nullable=False
NotNullColumns == {"nome", "cpf", "idade", "peso", "altura", "sexo"}

\* The fields of AtletaUpdate: every column but cpf
AtletaUpdateFields == AtletaColumns \ {"cpf"}

\* AtletaCreate(**body): every field is required and none is Optional
AtletaCreateValid(b) == DOMAIN b = AtletaColumns /\ \A f \in DOMAIN b : b[f] # None

\* An AtletaUpdate that keeps every key of the body, cpf included
ParseAtletaUpdate_keeps_cpf(body) == body

\* AtletaUpdate(**body): undeclared keys are dropped, declared ones are "set"
ParseAtletaUpdate(body) == [f \in (DOMAIN body) \cap AtletaUpdateFields |-> body[f]]

\* The constraints an INSERT or UPDATE of `row` breaks, `others` being the other rows
ForeignKeyBroken(row, centros_ids, categorias_ids) ==
    \/ row.centro_treinamento_id # None /\ row.centro_treinamento_id[1] \notin centros_ids
    \/ row.categoria_id # None /\ row.categoria_id[1] \notin categorias_ids

\* The same checks on a table whose cpf column was not declared unique
ConstraintViolations_no_unique(others, row, centros_ids, categorias_ids, fk) ==
    (IF \E f \in NotNullColumns : row[f] = None THEN {"not_null"} ELSE {})
      \cup (IF fk /\ ForeignKeyBroken(row, centros_ids, categorias_ids)
            THEN {"foreign_key"} ELSE {})

ConstraintViolations(others, row, centros_ids, categorias_ids, fk) ==
    (IF \E i \in 1..Len(others) : others[i].cpf = row.cpf THEN {"unique_cpf"} ELSE {})
      \cup (IF \E f \in NotNullColumns : row[f] = None THEN {"not_null"} ELSE {})
      \cup (IF fk /\ ForeignKeyBroken(row, centros_ids, categorias_ids)
            THEN {"foreign_key"} ELSE {})

\* The words of str(e).lower() for an IntegrityError: the engine's message for the
\* constraint, then the statement that failed
ConstraintMessage(violation) ==
    CASE violation = "unique_cpf" -> {"unique", "constraint", "failed", "atletas.cpf"}
      [] violation = "not_null" -> {"not", "null", "constraint", "failed"}
      [] OTHER -> {"foreign", "key", "constraint", "failed"}

InsertStatement == {"insert", "into", "atletas", "values"} \cup AtletaColumns

UpdateStatement(update_data) ==
    {"update", "atletas", "set", "where", "atletas.id"} \cup DOMAIN update_data

\* "cpf" in error_str
MentionsCpf(error_str) == error_str \cap {"cpf", "atletas.cpf"} # {}

CpfConflictDetail(cpf_value) == <<"Ja existe um atleta cadastrado com o cpf: ", cpf_value>>
IntegrityDetail == <<"Erro de integridade dos dados">>
AtletaNotFoundDetail == <<"Atleta nao encontrado">>

\* The except IntegrityError branch of create_atleta and update_atleta
IntegrityErrorResponse(error_str, cpf_value) ==
    IF MentionsCpf(error_str)
    THEN Response(303, CpfConflictDetail(cpf_value), <<>>)
    ELSE Response(400, IntegrityDetail, <<>>)

AtletaIndexes(rows, atleta_id) == {i \in 1..Len(rows) : rows[i].id = atleta_id}

\* db.query(Atleta).filter(Atleta.id == atleta_id).first()
FirstAtleta(rows, atleta_id) ==
    IF AtletaIndexes(rows, atleta_id) = {} THEN None
    ELSE Some(rows[CHOOSE i \in AtletaIndexes(rows, atleta_id) :
                      \A j \in AtletaIndexes(rows, atleta_id) : i <= j])

\* AtletaResponse: the row with both relations loaded; None where the key names no row
AtletaResponseOf(row, centros_ids, categorias_ids) ==
    [f \in DOMAIN row \cup {"centro_treinamento", "categoria"} |->
        CASE f = "centro_treinamento" ->
                 IF row.centro_treinamento_id # None
                    /\ row.centro_treinamento_id[1] \in centros_ids
                 THEN row.centro_treinamento_id ELSE None
          [] f = "categoria" ->
                 IF row.categoria_id # None /\ row.categoria_id[1] \in categorias_ids
                 THEN row.categoria_id ELSE None
          [] OTHER -> row[f]]

\* response_model=AtletaResponse: the two foreign keys are declared int, not Optional
AtletaResponseValid(r) == r.centro_treinamento_id # None /\ r.categoria_id # None

-----------------------------------------------------------------------------
(* workoutapi.py : LIKE *)

UpperChars == <<"A", "B", "N", "O">>
LowerChars == <<"a", "b", "n", "o">>

LowerChar(c) ==
    IF \E k \in 1..Len(UpperChars) : UpperChars[k] = c
    THEN LowerChars[CHOOSE k \in 1..Len(UpperChars) : UpperChars[k] = c]
    ELSE c

\* str.lower() / SQL lower()
Lower(str) == [i \in 1..Len(str) |-> LowerChar(str[i])]

\* s LIKE p: % stands for any run of characters, _ for any one character
RECURSIVE Like(_, _)
Like(str, p) ==
    IF p = <<>> THEN str = <<>>
    ELSE IF Head(p) = "%"
    THEN Like(str, Tail(p)) \/ (str # <<>> /\ Like(Tail(str), p))
    ELSE /\ str # <<>>
         /\ Head(p) = "_" \/ Head(p) = Head(str)
         /\ Like(Tail(str), Tail(p))

\* column.ilike(pattern)
ILike(str, p) == Like(Lower(str), Lower(p))

\* The filters of get_atletas: "if nome:" and "if cpf:" skip None and ""
AtletaFilter(row, nome, cpf) ==
    /\ (nome # None /\ nome[1] # <<>>) => ILike(row.nome[1], <<"%">> \o nome[1] \o <<"%">>)
    /\ (cpf # None /\ cpf[1] # <<>>) => row.cpf = cpf

\* paginate(query, params): the page-th run of `size` rows, with the total
paginate(rows, page, size) ==
    [items |-> SubSeq(rows, (page - 1) * size + 1, Min(Len(rows), page * size)),
     total |-> Len(rows), page |-> page, size |-> size]

-----------------------------------------------------------------------------
(* workoutapi.py : requests the model sends *)

Ana == <<"A", "n", "a">>
Bob == <<"B", "o", "b">>

CpfLength == 11
Cpf(digit) == [i \in 1..CpfLength |-> digit]

AtletaBody(nome, cpf, centro_id) ==
    [f \in AtletaColumns |->
        CASE f = "nome" -> Some(nome)
          [] f = "cpf" -> Some(cpf)
          [] f = "idade" -> Some(30)
          [] f = "peso" -> Some(70)
          [] f = "altura" -> Some(170)
          [] f = "sexo" -> Some(<<"F">>)
          [] f = "centro_treinamento_id" -> Some(centro_id)
          [] OTHER -> Some(1)]

\* Bodies of POST /atletas/; the last one lacks cpf
CreateAtletaBodies ==
    { AtletaBody(Ana, Cpf("1"), 1),
      AtletaBody(Bob, Cpf("2"), 1),
      AtletaBody(Bob, Cpf("1"), 1),
      AtletaBody(Bob, Cpf("2"), MaxCentros + 1),
      [f \in AtletaColumns \ {"cpf"} |-> AtletaBody(Ana, Cpf("1"), 1)[f]] }

\* Bodies of PUT /atletas/{atleta_id}: the keys present are the fields the caller set
UpdateAtletaBodies ==
    { "nome" :> Some(Bob),
      "nome" :> None,
      "centro_treinamento_id" :> Some(MaxCentros + 1),
      "cpf" :> Some(Cpf("2")) }

AtletaIds == 1..MaxAtletas

\* Query parameters of GET /atletas/
AtletaQueries ==
    { [nome |-> None, cpf |-> None, page |-> 1, size |-> 1],
      [nome |-> None, cpf |-> None, page |-> 2, size |-> 1],
      [nome |-> Some(<<"a", "N">>), cpf |-> None, page |-> 1, size |-> 10],
      [nome |-> Some(<<"_">>), cpf |-> None, page |-> 1, size |-> 10],
      [nome |-> None, cpf |-> Some(Cpf("1")), page |-> 1, size |-> 10],
      [nome |-> Some(<<"b">>), cpf |-> Some(Cpf("1")), page |-> 1, size |-> 10],
      [nome |-> Some(<<>>), cpf |-> Some(<<>>), page |-> 1, size |-> 10] }

-----------------------------------------------------------------------------
(* workoutapi.py : route handlers *)

\* A create_atleta whose row stays in the table although the INSERT was refused
create_atleta_handler_keeps_row(rows, atleta, new_id, centros_ids, categorias_ids, violation) ==
    LET db_atleta == [f \in AtletaColumns \cup {"id"} |->
                         IF f = "id" THEN new_id ELSE atleta[f]]
    IN  [response |-> IF violation = "none"
                      THEN Response(201, <<>>,
                               Some(AtletaResponseOf(db_atleta, centros_ids, categorias_ids)))
                      ELSE IntegrityErrorResponse(
                               ConstraintMessage(violation) \cup InsertStatement, atleta.cpf[1]),
         rows |-> Append(rows, db_atleta)]

\* create_atleta, when the INSERT breaks no constraint (violation = "none") or is
\* refused for `violation`
create_atleta_handler(rows, atleta, new_id, centros_ids, categorias_ids, violation) ==
    LET db_atleta == [f \in AtletaColumns \cup {"id"} |->
                         IF f = "id" THEN new_id ELSE atleta[f]]
    IN  IF violation = "none"
        THEN [response |-> Response(201, <<>>,
                    Some(AtletaResponseOf(db_atleta, centros_ids, categorias_ids))),
              rows |-> Append(rows, db_atleta)]
        ELSE [response |-> IntegrityErrorResponse(
                    ConstraintMessage(violation) \cup InsertStatement, atleta.cpf[1]),
              rows |-> rows]

\* POST /atletas/
CreateAtletaRequest(atleta, violation) ==
    /\ req' = [op |-> "create_atleta", id |-> 0, body |-> atleta]
    /\ IF ~AtletaCreateValid(atleta)
       THEN /\ violation = "none"
            /\ resp' = Unprocessable
            /\ UNCHANGED <<atletas, nextAtletaId>>
       ELSE LET broken == ConstraintViolations(atletas, atleta, centros, categorias,
                                               fkEnforced)
                h == create_atleta_handler(atletas, atleta, nextAtletaId, centros,
                                           categorias, violation)
            IN  /\ IF broken = {} THEN violation = "none" ELSE violation \in broken
                /\ violation = "none" => nextAtletaId <= MaxAtletas
                /\ atletas' = h.rows
                /\ resp' = h.response
                /\ nextAtletaId' = IF violation = "none" THEN nextAtletaId + 1
                                   ELSE nextAtletaId
    /\ UNCHANGED <<storeVars, concVars, centros, categorias, fkEnforced>>

create_atleta ==
    \E atleta \in CreateAtletaBodies,
       violation \in {"none", "unique_cpf", "not_null", "foreign_key"} :
        CreateAtletaRequest(atleta, violation)

\* update_atleta on a row that exists
update_atleta_handler(rows, atleta_id, update_data, centros_ids, categorias_ids, violation) ==
    LET atleta == FirstAtleta(rows, atleta_id)[1]
        updated == [f \in DOMAIN atleta |->
                       IF f \in DOMAIN update_data THEN update_data[f] ELSE atleta[f]]
        answer == AtletaResponseOf(updated, centros_ids, categorias_ids)
    IN  IF violation = "none"
        THEN [response |-> IF AtletaResponseValid(answer)
                           THEN Response(200, <<>>, Some(answer))
                           ELSE ServerError,
              rows |-> [i \in 1..Len(rows) |->
                           IF rows[i].id = atleta_id THEN updated ELSE rows[i]]]
        ELSE [response |-> IntegrityErrorResponse(
                    ConstraintMessage(violation) \cup UpdateStatement(update_data),
                    atleta.cpf[1]),
              rows |-> rows]

\* PUT /atletas/{atleta_id}
UpdateAtletaRequest(atleta_id, body, violation) ==
    /\ req' = [op |-> "update_atleta", id |-> atleta_id, body |-> body]
    /\ IF FirstAtleta(atletas, atleta_id) = None
       THEN /\ violation = "none"
            /\ resp' = Response(404, AtletaNotFoundDetail, <<>>)
            /\ UNCHANGED atletas
       ELSE LET update_data == ParseAtletaUpdate(body)
                atleta == FirstAtleta(atletas, atleta_id)[1]
                updated == [f \in DOMAIN atleta |->
                               IF f \in DOMAIN update_data THEN update_data[f]
                               ELSE atleta[f]]
                others == SelectSeq(atletas, LAMBDA r : r.id # atleta_id)
                broken == ConstraintViolations(others, updated, centros, categorias,
                                               fkEnforced)
                h == update_atleta_handler(atletas, atleta_id, update_data, centros,
                                           categorias, violation)
            IN  /\ IF broken = {} THEN violation = "none" ELSE violation \in broken
                /\ atletas' = h.rows
                /\ resp' = h.response
    /\ UNCHANGED <<storeVars, concVars, centros, categorias, nextAtletaId, fkEnforced>>

update_atleta ==
    \E atleta_id \in AtletaIds, body \in UpdateAtletaBodies,
       violation \in {"none", "unique_cpf", "not_null", "foreign_key"} :
        UpdateAtletaRequest(atleta_id, body, violation)

\* DELETE /atletas/{atleta_id}
DeleteAtletaRequest(atleta_id) ==
    /\ req' = [op |-> "delete_atleta", id |-> atleta_id, body |-> <<>>]
    /\ IF FirstAtleta(atletas, atleta_id) = None
       THEN /\ resp' = Response(404, AtletaNotFoundDetail, <<>>)
            /\ UNCHANGED atletas
       ELSE /\ resp' = Response(204, <<>>, <<>>)
            /\ atletas' = SelectSeq(atletas, LAMBDA r : r.id # atleta_id)
    /\ UNCHANGED <<storeVars, concVars, centros, categorias, nextAtletaId, fkEnforced>>

delete_atleta == \E atleta_id \in AtletaIds : DeleteAtletaRequest(atleta_id)

\* get_atleta
get_atleta_handler(rows, atleta_id, centros_ids, categorias_ids) ==
    LET atleta == FirstAtleta(rows, atleta_id)
    IN  IF atleta = None THEN Response(404, AtletaNotFoundDetail, <<>>)
        ELSE LET answer == AtletaResponseOf(atleta[1], centros_ids, categorias_ids)
             IN  IF AtletaResponseValid(answer) THEN Response(200, <<>>, Some(answer))
                 ELSE ServerError

\* GET /atletas/{atleta_id}
GetAtletaRequest(atleta_id) ==
    /\ req' = [op |-> "get_atleta", id |-> atleta_id, body |-> <<>>]
    /\ resp' = get_atleta_handler(atletas, atleta_id, centros, categorias)
    /\ UNCHANGED <<storeVars, workoutVars, concVars>>

get_atleta == \E atleta_id \in AtletaIds : GetAtletaRequest(atleta_id)

\* get_atletas: the rows passing both filters, paginated
get_atletas_handler(rows, q, centros_ids, categorias_ids) ==
    LET hits == SelectSeq(rows, LAMBDA r : AtletaFilter(r, q.nome, q.cpf))
        page == paginate(hits, q.page, q.size)
        answers == [i \in 1..Len(page.items) |->
                       AtletaResponseOf(page.items[i], centros_ids, categorias_ids)]
    IN  IF \A i \in 1..Len(answers) : AtletaResponseValid(answers[i])
        THEN Response(200, <<>>, [page EXCEPT !.items = answers])
        ELSE ServerError

\* GET /atletas/
GetAtletasRequest(q) ==
    /\ req' = [op |-> "get_atletas", id |-> 0, body |-> q]
    /\ resp' = get_atletas_handler(atletas, q, centros, categorias)
    /\ UNCHANGED <<storeVars, workoutVars, concVars>>

get_atletas == \E q \in AtletaQueries : GetAtletasRequest(q)

\* POST /centros_treinamento/
create_centro_treinamento ==
    /\ Cardinality(centros) < MaxCentros
    /\ centros' = centros \cup {Cardinality(centros) + 1}
    /\ req' = [op |-> "create_centro_treinamento", id |-> 0, body |-> <<>>]
    /\ resp' = Response(201, <<>>, Some(Cardinality(centros) + 1))
    /\ UNCHANGED <<storeVars, concVars, atletas, categorias, nextAtletaId, fkEnforced>>

\* POST /categorias/
create_categoria ==
    /\ Cardinality(categorias) < MaxCategorias
    /\ categorias' = categorias \cup {Cardinality(categorias) + 1}
    /\ req' = [op |-> "create_categoria", id |-> 0, body |-> <<>>]
    /\ resp' = Response(201, <<>>, Some(Cardinality(categorias) + 1))
    /\ UNCHANGED <<storeVars, concVars, atletas, centros, nextAtletaId, fkEnforced>>

\* The tables are empty at start-up; the engine behind DATABASE_URL may or may not
\* enforce foreign keys (SQLite, the default, does not unless told to)
WorkoutInit ==
    /\ products = <<>>
    /\ nextOid = 1
    /\ now = 0
    /\ atletas = <<>>
    /\ centros = {}
    /\ categorias = {}
    /\ nextAtletaId = 1
    /\ fkEnforced \in BOOLEAN
    /\ tasks = [t \in Tasks |-> IdleTask]
    /\ sessions = [s \in Sessions |-> FreeSession]
    /\ req = [op |-> "none", id |-> 0, body |-> <<>>]
    /\ resp = Response(0, <<>>, <<>>)

WorkoutNext ==
    \/ create_centro_treinamento
    \/ create_categoria
    \/ create_atleta
    \/ update_atleta
    \/ delete_atleta
    \/ get_atleta
    \/ get_atletas

WorkoutSpec == WorkoutInit /\ [][WorkoutNext]_vars

-----------------------------------------------------------------------------
(* workoutapi.py : concurrent requests.  Each request has its own Session  *)
(* (get_db); the table is shared through the engine, which runs each       *)
(* statement, and the commit of an INSERT, UPDATE or DELETE with its       *)
(* constraint checks, as one step.  Requests of several worker processes   *)
(* interleave between these steps.                                         *)

\* The session of request s after a step
InFlight(pc, op, id, body, atleta, rivals) ==
    [pc |-> pc, op |-> op, id |-> id, body |-> body, atleta |-> atleta, rivals |-> rivals]

\* The columns an UPDATE sets: the attributes whose value differs from the loaded one
ChangedData(loaded, update_data) ==
    [f \in {g \in DOMAIN update_data : update_data[g] # loaded[g]} |-> update_data[f]]

\* Bodies of the concurrent POST requests: two athletes with one cpf, one with another
ConcCreateAtletaBodies ==
    { AtletaBody(Ana, Cpf("1"), 1), AtletaBody(Bob, Cpf("1"), 1),
      AtletaBody(Bob, Cpf("2"), 1) }

\* Bodies of the concurrent PUT requests: a new name, and the cpf of another athlete
ConcUpdateAtletaBodies == { "nome" :> Some(Bob), "cpf" :> Some(Cpf("2")) }

\* POST /atletas/ arrives: the body is validated and db_atleta is added to the session
BeginCreate(s, atleta) ==
    /\ sessions[s].pc = "free"
    /\ IF ~AtletaCreateValid(atleta)
       THEN /\ req' = [op |-> "create_atleta", id |-> 0, body |-> atleta]
            /\ resp' = Unprocessable
            /\ UNCHANGED sessions
       ELSE /\ sessions' = [sessions EXCEPT ![s] =
                               InFlight("commit", "create_atleta", 0, atleta, None, {})]
            /\ UNCHANGED <<req, resp>>
    /\ UNCHANGED <<storeVars, workoutVars, tasks>>

begin_create == \E s \in Sessions, atleta \in ConcCreateAtletaBodies : BeginCreate(s, atleta)

\* db.commit() of create_atleta: the INSERT, refused with IntegrityError when it
\* breaks a constraint
CommitCreate(s, violation) ==
    /\ sessions[s].pc = "commit"
    /\ sessions[s].op = "create_atleta"
    /\ LET atleta == sessions[s].body
           broken == ConstraintViolations(atletas, atleta, centros, categorias, fkEnforced)
           h == create_atleta_handler(atletas, atleta, nextAtletaId, centros, categorias,
                                      violation)
       IN  /\ IF broken = {} THEN violation = "none" ELSE violation \in broken
           /\ violation = "none" => nextAtletaId <= MaxAtletas
           /\ atletas' = h.rows
           /\ IF violation = "none"
              THEN /\ nextAtletaId' = nextAtletaId + 1
                   /\ sessions' = [sessions EXCEPT ![s].pc = "refresh",
                                                   ![s].id = nextAtletaId]
                   /\ UNCHANGED <<req, resp>>
              ELSE /\ req' = [op |-> "create_atleta", id |-> 0, body |-> atleta]
                   /\ resp' = h.response
                   /\ sessions' = [sessions EXCEPT ![s] = FreeSession]
                   /\ UNCHANGED nextAtletaId
    /\ UNCHANGED <<storeVars, centros, categorias, fkEnforced, tasks>>

commit_create ==
    \E s \in Sessions, violation \in {"none", "unique_cpf", "not_null", "foreign_key"} :
        CommitCreate(s, violation)

\* PUT /atletas/{atleta_id} arrives: the SELECT of the row, 404 when there is none
BeginUpdate(s, atleta_id, body) ==
    /\ sessions[s].pc = "free"
    /\ IF FirstAtleta(atletas, atleta_id) = None
       THEN /\ req' = [op |-> "update_atleta", id |-> atleta_id, body |-> body]
            /\ resp' = Response(404, AtletaNotFoundDetail, <<>>)
            /\ UNCHANGED sessions
       ELSE /\ sessions' = [sessions EXCEPT ![s] =
                               InFlight("commit", "update_atleta", atleta_id, body,
                                        FirstAtleta(atletas, atleta_id), {})]
            /\ UNCHANGED <<req, resp>>
    /\ UNCHANGED <<storeVars, workoutVars, tasks>>

begin_update ==
    \E s \in Sessions, atleta_id \in AtletaIds, body \in ConcUpdateAtletaBodies :
        BeginUpdate(s, atleta_id, body)

\* db.commit() of update_atleta: no statement when no attribute changed; else the
\* UPDATE of the changed columns WHERE id = atleta_id, which raises StaleDataError
\* (not caught) when it matches no row, and IntegrityError when it breaks a constraint
CommitUpdate(s, violation) ==
    /\ sessions[s].pc = "commit"
    /\ sessions[s].op = "update_atleta"
    /\ LET atleta_id == sessions[s].id
           changed == ChangedData(sessions[s].atleta[1],
                                  ParseAtletaUpdate(sessions[s].body))
           current == FirstAtleta(atletas, atleta_id)
       IN  IF DOMAIN changed = {}
           THEN /\ violation = "none"
                /\ sessions' = [sessions EXCEPT ![s].pc = "refresh"]
                /\ UNCHANGED <<atletas, req, resp>>
           ELSE IF current = None
           THEN /\ violation = "none"
                /\ req' = [op |-> "update_atleta", id |-> atleta_id,
                           body |-> sessions[s].body]
                /\ resp' = ServerError
                /\ sessions' = [sessions EXCEPT ![s] = FreeSession]
                /\ UNCHANGED atletas
           ELSE LET updated == [f \in DOMAIN current[1] |->
                                   IF f \in DOMAIN changed THEN changed[f]
                                   ELSE current[1][f]]
                    others == SelectSeq(atletas, LAMBDA r : r.id # atleta_id)
                    broken == ConstraintViolations(others, updated, centros, categorias,
                                                   fkEnforced)
                    h == update_atleta_handler(atletas, atleta_id, changed, centros,
                                               categorias, violation)
                IN  /\ IF broken = {} THEN violation = "none" ELSE violation \in broken
                    /\ atletas' = h.rows
                    /\ IF violation = "none"
                       THEN /\ sessions' = [sessions EXCEPT ![s].pc = "refresh"]
                            /\ UNCHANGED <<req, resp>>
                       ELSE /\ req' = [op |-> "update_atleta", id |-> atleta_id,
                                       body |-> sessions[s].body]
                            /\ resp' = h.response
                            /\ sessions' = [sessions EXCEPT ![s] = FreeSession]
    /\ UNCHANGED <<storeVars, centros, categorias, nextAtletaId, fkEnforced, tasks>>

commit_update ==
    \E s \in Sessions, violation \in {"none", "unique_cpf", "not_null", "foreign_key"} :
        CommitUpdate(s, violation)

\* DELETE /atletas/{atleta_id} arrives: the SELECT of the row, 404 when there is none
BeginDelete(s, atleta_id) ==
    /\ sessions[s].pc = "free"
    /\ IF FirstAtleta(atletas, atleta_id) = None
       THEN /\ req' = [op |-> "delete_atleta", id |-> atleta_id, body |-> <<>>]
            /\ resp' = Response(404, AtletaNotFoundDetail, <<>>)
            /\ UNCHANGED sessions
       ELSE /\ sessions' = [sessions EXCEPT ![s] =
                               InFlight("commit", "delete_atleta", atleta_id, <<>>,
                                        FirstAtleta(atletas, atleta_id), {})]
            /\ UNCHANGED <<req, resp>>
    /\ UNCHANGED <<storeVars, workoutVars, tasks>>

begin_delete == \E s \in Sessions, atleta_id \in AtletaIds : BeginDelete(s, atleta_id)

\* db.delete(atleta); db.commit(): the DELETE WHERE id = atleta_id, then 204
CommitDelete(s) ==
    /\ sessions[s].pc = "commit"
    /\ sessions[s].op = "delete_atleta"
    /\ atletas' = SelectSeq(atletas, LAMBDA r : r.id # sessions[s].id)
    /\ req' = [op |-> "delete_atleta", id |-> sessions[s].id, body |-> <<>>]
    /\ resp' = Response(204, <<>>, <<>>)
    /\ sessions' = [sessions EXCEPT ![s] = FreeSession]
    /\ UNCHANGED <<storeVars, centros, categorias, nextAtletaId, fkEnforced, tasks>>

commit_delete == \E s \in Sessions : CommitDelete(s)

\* The request a session answers: create_atleta has no path parameter
RequestOf(session) ==
    [op |-> session.op, id |-> IF session.op = "create_atleta" THEN 0 ELSE session.id,
     body |-> session.body]

\* db.refresh(...) of create_atleta and update_atleta: the SELECT of the row by its
\* primary key, InvalidRequestError (not caught) when the row is gone
Refresh(s) ==
    /\ sessions[s].pc = "refresh"
    /\ LET row == FirstAtleta(atletas, sessions[s].id)
       IN  IF row = None
           THEN /\ req' = RequestOf(sessions[s])
                /\ resp' = ServerError
                /\ sessions' = [sessions EXCEPT ![s] = FreeSession]
           ELSE /\ sessions' = [sessions EXCEPT ![s].pc = "reload", ![s].atleta = row]
                /\ UNCHANGED <<req, resp>>
    /\ UNCHANGED <<storeVars, workoutVars, tasks>>

refresh == \E s \in Sessions : Refresh(s)

\* A session with a create_atleta in flight for the cpf of `session`
RivalOf(session, other) ==
    /\ other.pc # "free"
    /\ other.op = "create_atleta"
    /\ session.op = "create_atleta"
    /\ other.body.cpf = session.body.cpf

\* The query that loads the relations, and the answer: .first() gives the object the
\* session already holds, with the attributes refresh loaded, or None when the row is
\* gone, which AtletaResponse rejects.  A 201 is noted in the sessions of the other
\* create_atleta requests in flight for the same cpf.
Reload(s) ==
    /\ sessions[s].pc = "reload"
    /\ LET session == sessions[s]
           answer == AtletaResponseOf(session.atleta[1], centros, categorias)
           ok == FirstAtleta(atletas, session.id) # None /\ AtletaResponseValid(answer)
       IN  /\ req' = RequestOf(session)
           /\ resp' = IF ~ok THEN ServerError
                      ELSE Response(IF session.op = "create_atleta" THEN 201 ELSE 200,
                                    <<>>, Some(answer))
           /\ sessions' = [x \in Sessions |->
                  IF x = s THEN FreeSession
                  ELSE IF ok /\ RivalOf(session, sessions[x])
                  THEN [sessions[x] EXCEPT !.rivals = @ \cup {session.id}]
                  ELSE sessions[x]]
    /\ UNCHANGED <<storeVars, workoutVars, tasks>>

reload == \E s \in Sessions : Reload(s)

WorkoutConcNext ==
    \/ create_centro_treinamento
    \/ create_categoria
    \/ begin_create
    \/ commit_create
    \/ begin_update
    \/ commit_update
    \/ begin_delete
    \/ commit_delete
    \/ refresh
    \/ reload

WorkoutConcSpec == WorkoutInit /\ [][WorkoutConcNext]_vars

-----------------------------------------------------------------------------
(* store_api.py : properties *)

\* The stored document a well-formed id names, as Some(document) or None
Stored(coll, product_id) ==
    IF ObjectId_is_valid(product_id) THEN find_one(coll, ObjectIdOf(product_id)) ELSE None

\* What a caller of get_by_id observes: the exception raised and the value returned
Lookup(coll, product_id) ==
    LET r == get_by_id(coll, product_id) IN <<r.exc, r.value>>

UpdateOrDeleteOf(product_id) ==
    \/ DeleteProductRequest(product_id)
    \/ \E body \in UpdateBodies : UpdateProductRequest(product_id, body)

\* C1: a valid creation answers 201 with a record whose id is non-empty, a lookup by
\* that id returns a record equal to it in every field, and the lookup keeps
\* returning that record across every step that is not an update or delete of the id.
C1_CreateThenLookup ==
    /\ [](req.op = "create_product" /\ ProductCreateValid(req.body) =>
            /\ resp.status = 201
            /\ Len(resp.body[1].id) > 0
            /\ Lookup(products, resp.body[1].id) = <<"", resp.body>>)
    /\ [][\A product_id \in ProductIds :
            (Lookup(products, product_id)[1] = "" /\ ~UpdateOrDeleteOf(product_id))
                => Lookup(products', product_id) = Lookup(products, product_id)]_vars

\* C1 witness: a product was created at a time with a sub-millisecond part and
\* another request has since looked it up successfully.
C1_Witness ==
    /\ req.op = "get_product"
    /\ resp.status = 200
    /\ now = 500
    /\ Len(products) = 2

\* A PATCH that passes validation, sets exactly one declared field and names a stored product
OneFieldUpdate(product_id, body) ==
    /\ UpdateProductRequest(product_id, body)
    /\ ProductUpdateValid(ParseProductUpdate(body))
    /\ Cardinality(DOMAIN ParseProductUpdate(body)) = 1
    /\ Stored(products, product_id) # None

\* Across the step, the named product keeps every field outside `fields` and every
\* other product is unchanged
FrameExcept(product_id, fields) ==
    /\ Len(products') = Len(products)
    /\ \A i \in 1..Len(products) :
          IF products[i]._id = ObjectIdOf(product_id)
          THEN /\ DOMAIN products'[i] = DOMAIN products[i]
               /\ \A f \in (DOMAIN products[i]) \ fields :
                      products'[i][f] = products[i][f]
          ELSE products'[i] = products[i]

\* C2 as stated: a one-field update leaves every other field of the product, updated_at
\* included, and every other product unchanged.
C2_AllOtherFieldsKept ==
    [][\A <<product_id, body>> \in UpdateRequests :
          OneFieldUpdate(product_id, body)
              => FrameExcept(product_id, DOMAIN ParseProductUpdate(body))]_vars

\* C2 amended: a one-field update leaves every other field of the product except
\* updated_at, and every other product, unchanged.
C2_OtherFieldsKeptExceptUpdatedAt ==
    [][\A <<product_id, body>> \in UpdateRequests :
          OneFieldUpdate(product_id, body)
              => FrameExcept(product_id,
                             DOMAIN ParseProductUpdate(body) \cup {"updated_at"})]_vars

\* C2 witness: a one-field update of name went through while two products are stored.
C2_Witness ==
    /\ req.op = "update_product"
    /\ DOMAIN req.body = {"name"}
    /\ resp.status = 200
    /\ Len(products) = 2

\* An optional price lies within the bounds a query gives
PriceWithin(price, q) ==
    /\ q.min_price # None => (price # None /\ price[1] > q.min_price[1])
    /\ q.max_price # None => (price # None /\ price[1] < q.max_price[1])

\* C3: a listing returns only products within the price bounds (strict on both ends)
\* and, when the matching set fits in the requested page, exactly that set.
C3_ListReturnsMatching ==
    (req.op = "list_products" /\ ListQueryValid(req.body)) =>
        /\ resp.status = 200
        /\ \A i \in 1..Len(resp.body) : PriceWithin(resp.body[i].price, req.body)
        /\ LET matching == {i \in 1..Len(products) :
                                PriceWithin(products[i].price, req.body)}
           IN  (req.body.skip = 0 /\ Cardinality(matching) <= req.body.limit)
                  => {resp.body[i].id : i \in 1..Len(resp.body)}
                       = {ObjectIdStr(products[i]._id) : i \in matching}

MalformedIds == {product_id \in ProductIds : ~ObjectId_is_valid(product_id)}

AbsentIds ==
    {product_id \in ProductIds :
        ObjectId_is_valid(product_id) /\ Stored(products, product_id) = None}

ValidUpdates ==
    {p \in {ParseProductUpdate(body) : body \in UpdateBodies} : ProductUpdateValid(p)}

C5_DeleteOutcome ==
    [][\A product_id \in ProductIds :
          DeleteProductRequest(product_id) =>
              IF Stored(products, product_id) = None
              THEN resp'.status = 404 /\ products' = products
              ELSE /\ resp'.status = 204
                   /\ Len(products') = Len(products) - 1
                   /\ Stored(products', product_id) = None
                   /\ \A other \in ProductIds \ {product_id} :
                         Stored(products', other) = Stored(products, other)]_vars

\* C5 witness: a delete of a well-formed id that matches no stored product was
\* answered 404 with another product still stored.
C5_Witness ==
    /\ req.op = "delete_product"
    /\ req.id \in AbsentIds
    /\ resp.status = 404
    /\ Len(products) > 0

\* C9: every stored product meets the product field constraints, so get_by_id returns it.
C9_StoredProductsValid ==
    \A i \in 1..Len(products) :
        /\ ProductInDBValid(products[i])
        /\ Lookup(products, ObjectIdStr(products[i]._id))[1] = ""

\* A PATCH that was answered with the updated record
SuccessfulUpdate(product_id, body) ==
    /\ UpdateProductRequest(product_id, body)
    /\ resp'.status = 200

\* C10 as stated: a successful update sets updated_at to the current server time, or to
\* the caller's value when one was supplied; id and created_at are unchanged.
C10_UpdatedAtExact ==
    [][\A <<product_id, body>> \in UpdateRequests :
          SuccessfulUpdate(product_id, body) =>
              LET p == ParseProductUpdate(body)
                  old == Stored(products, product_id)[1]
                  new == Stored(products', product_id)[1]
              IN  /\ new.updated_at =
                        IF "updated_at" \in DOMAIN p THEN p.updated_at ELSE Some(now)
                  /\ new._id = old._id
                  /\ new.created_at = old.created_at
                  /\ resp'.body[1].id = product_id]_vars

\* C10 amended: a successful update sets updated_at to the current server time, or to
\* the caller's value when one was supplied, in both cases cut down to whole
\* milliseconds; id and created_at are unchanged.
C10_UpdatedAtMillis ==
    [][\A <<product_id, body>> \in UpdateRequests :
          SuccessfulUpdate(product_id, body) =>
              LET p == ParseProductUpdate(body)
                  old == Stored(products, product_id)[1]
                  new == Stored(products', product_id)[1]
              IN  /\ new.updated_at =
                        IF "updated_at" \notin DOMAIN p THEN Some(TruncMs(now))
                        ELSE IF p.updated_at = None THEN None
                        ELSE Some(TruncMs(p.updated_at[1]))
                  /\ resp'.body[1].updated_at = new.updated_at
                  /\ new._id = old._id
                  /\ new.created_at = old.created_at
                  /\ resp'.body[1].id = product_id
                  /\ resp'.body[1].created_at = old.created_at]_vars

\* C10 witness: an update that supplied updated_at was answered with the record.
C10_Witness ==
    /\ req.op = "update_product"
    /\ "updated_at" \in DOMAIN req.body
    /\ resp.status = 200

-----------------------------------------------------------------------------
(* store_api.py : properties of concurrent requests *)

\* C11: under any interleaving of product requests suspending at each storage call, an
\* update with a well-formed id ends either returning the record of that id (answer
\* 200 with that id) or signalling not-found (ProductNotFoundException, answer 404),
\* and in no other failure.
C11_UpdateReturnsOrNotFound ==
    (req.op = "update_product" /\ ObjectId_is_valid(req.id)) =>
        \/ resp.status = 200 /\ resp.body[1].id = req.id
        \/ resp.status = 404

-----------------------------------------------------------------------------
(* workoutapi.py : properties *)

ViolationKinds == {"none", "unique_cpf", "not_null", "foreign_key"}

\* C6: a create_atleta whose cpf an existing athlete already has is answered 303 with
\* a message naming that cpf, and the athletes table is what it was before.
C6_DuplicateCpfConflict ==
    [][\A atleta \in CreateAtletaBodies, violation \in ViolationKinds :
          ( /\ CreateAtletaRequest(atleta, violation)
            /\ AtletaCreateValid(atleta)
            /\ \E i \in 1..Len(atletas) : atletas[i].cpf = atleta.cpf )
          => /\ resp'.status = 303
             /\ resp'.detail = CpfConflictDetail(atleta.cpf[1])
             /\ atletas' = atletas]_vars

\* C6 witness: a second create with the cpf of a stored athlete was answered 303.
C6_Witness ==
    /\ req.op = "create_atleta"
    /\ resp.status = 303
    /\ \E i \in 1..Len(atletas) : atletas[i].cpf = req.body.cpf

\* C7: a create_atleta refused for an integrity violation is answered 303 exactly when
\* the violation is that of the cpf uniqueness constraint, and 400 for any other; the
\* table is left as it was.
C7_ConflictOnlyForCpf ==
    [][\A atleta \in CreateAtletaBodies, violation \in ViolationKinds \ {"none"} :
          CreateAtletaRequest(atleta, violation)
          => /\ resp'.status = IF violation = "unique_cpf" THEN 303 ELSE 400
             /\ atletas' = atletas]_vars

\* sub occurs in str, letter case ignored
ContainsIgnoreCase(str, sub) ==
    \E k \in 1..(Len(str) - Len(sub) + 1) :
        SubSeq(Lower(str), k, k + Len(sub) - 1) = Lower(sub)

\* An athlete satisfies the filters a query supplies (an empty string supplies none)
SatisfiesFilters(row, q) ==
    /\ (q.nome # None /\ q.nome[1] # <<>>) => ContainsIgnoreCase(row.nome[1], q.nome[1])
    /\ (q.cpf # None /\ q.cpf[1] # <<>>) => row.cpf = q.cpf

\* C8: get_atletas returns only athletes whose name contains the nome filter, letter
\* case ignored, and whose cpf equals the cpf filter; the page holds at most `size`
\* athletes and the total counts exactly the athletes satisfying the filters.
C8_ListMatchesFilters ==
    req.op = "get_atletas" =>
        /\ resp.status = 200
        /\ \A i \in 1..Len(resp.body.items) : SatisfiesFilters(resp.body.items[i], req.body)
        /\ Len(resp.body.items) <= req.body.size
        /\ resp.body.total =
              Cardinality({i \in 1..Len(atletas) : SatisfiesFilters(atletas[i], req.body)})

\* C13: update_atleta on an existing athlete leaves every field the request did not
\* supply, and always the id and the cpf, as they were, and leaves every other row
\* unchanged; on an id that matches no athlete it answers 404 and changes nothing.
C13_UpdateChangesOnlySupplied ==
    [][\A atleta_id \in AtletaIds, body \in UpdateAtletaBodies, violation \in ViolationKinds :
          UpdateAtletaRequest(atleta_id, body, violation) =>
              IF FirstAtleta(atletas, atleta_id) = None
              THEN resp'.status = 404 /\ atletas' = atletas
              ELSE /\ Len(atletas') = Len(atletas)
                   /\ \A i \in 1..Len(atletas) :
                         IF atletas[i].id # atleta_id THEN atletas'[i] = atletas[i]
                         ELSE /\ atletas'[i].id = atleta_id
                              /\ atletas'[i].cpf = atletas[i].cpf
                              /\ \A f \in AtletaColumns \ DOMAIN body :
                                    atletas'[i][f] = atletas[i][f]]_vars

\* C13 witness: an update that supplied a name was answered 200 with that name, the
\* table holding a second athlete.
C13_Witness ==
    /\ req.op = "update_atleta"
    /\ "nome" \in DOMAIN req.body
    /\ resp.status = 200
    /\ resp.body[1].nome = req.body.nome
    /\ Len(atletas) = 2
    /\ \E i \in 1..Len(atletas) : atletas[i].id = req.id /\ atletas[i].nome = req.body.nome

-----------------------------------------------------------------------------
(* workoutapi.py : properties of concurrent requests *)

NoDuplicateCpf ==
    \A i, j \in 1..Len(atletas) : atletas[i].cpf = atletas[j].cpf => i = j

\* Request s answers its create_atleta with 201
Created(s) ==
    /\ Reload(s)
    /\ sessions[s].op = "create_atleta"
    /\ resp'.status = 201

\* C12 as stated: in every reachable state no two athlete rows have the same cpf, and
\* of the concurrent create requests carrying one cpf at most one answers 201: a
\* create answers 201 only if no create for the same cpf answered 201 while it was in
\* flight.
C12_AtMostOneCreated ==
    /\ []NoDuplicateCpf
    /\ [][\A s \in Sessions : Created(s) => sessions[s].rivals = {}]_vars

\* C12 amended: in every reachable state no two athlete rows have the same cpf, so of
\* the concurrent creates carrying one cpf at most one has its row in the table; a
\* second one answers 201 only when the row of the first is no longer in the table (a
\* delete_atleta removed it).
C12_AtMostOneRowPerCpf ==
    /\ []NoDuplicateCpf
    /\ [][\A s \in Sessions :
            Created(s) => \A id \in sessions[s].rivals : FirstAtleta(atletas, id) = None]_vars

\* C12 witness: a create was answered 201 while another create for the same cpf is in
\* flight, and its row is in the table.
C12_Witness ==
    /\ req.op = "create_atleta"
    /\ resp.status = 201
    /\ \E s \in Sessions :
          /\ sessions[s].op = "create_atleta"
          /\ sessions[s].pc = "commit"
          /\ \E id \in sessions[s].rivals :
                /\ FirstAtleta(atletas, id) # None
                /\ FirstAtleta(atletas, id)[1].cpf = sessions[s].body.cpf

====
